---- MODULE Spec2Model ----
(***************************************************************************)
(* Model of akd's StorageManager (src/akd/src/storage/manager.rs): the     *)
(* mediator between the directory engine and a backing store, composing a  *)
(* timed cache, one in-memory transaction buffer and the database.         *)
(*                                                                         *)
(* The Transaction, TimedCache and Database types are used by manager.rs   *)
(* but defined elsewhere; their operations are modelled from their         *)
(* contracts (the Tx..., Cache... and Db... operators below).              *)
(***************************************************************************)
EXTENDS Integers, Sequences, FiniteSets, TLC

VARIABLES
    cacheOn,    \* self.cache is Some(_) (new) or None (new_no_cache)
    cache,      \* records held by the TimedCache, one per storage key
    can_clean,  \* the cache's cleaning switch (enable_clean / disable_clean)
    active,     \* the Transaction's active flag
    mods,       \* records staged in the Transaction, one per storage key
    db,         \* records held by the backing store, one per storage key
    op,         \* the mediator call that ran last, with its arguments
    result,     \* what that call returned
    log,        \* the cache writes, store calls and metric increments it made, in order
    tasks,      \* concurrent callers: where each is in its call, its locals, its result
    fresh,      \* records of commits that returned Ok, no write to their key since
    seen        \* staged records a get has returned, no write to their key since, until
                \* the transaction ends

vars == <<cacheOn, cache, can_clean, active, mods, db, op, result, log, tasks, fresh, seen>>

\* What the calls of concurrent tasks use, and what whole calls in sequence leave alone
conc == <<tasks, fresh, seen>>

\* What whole calls record, and what the steps of concurrent tasks leave alone
last == <<op, result, log>>

----------------------------------------------------------------------------
(* Bounds *)

MaxEpochVal == 3
MaxBatch == 2

(* Metric indices *)
METRIC_GET == 0
METRIC_BATCH_GET == 1
METRIC_SET == 2
METRIC_BATCH_SET == 3
METRIC_TOMBSTONE == 6
METRIC_GET_USER_STATE == 7
METRIC_GET_USER_DATA == 8
METRIC_GET_USER_STATE_VERSIONS == 9

----------------------------------------------------------------------------
(* Records and storage keys *)

Users == {"u1", "u2"}
Epochs == 1..MaxEpochVal
Values == {"a", "b"}
TOMBSTONE == "tombstone"

\* The epoch at which a user's first version is published: u1 joins the directory
\* at epoch 2, u2 at the last epoch. A state's version counts from there.
FirstEpoch(u) == IF u = "u1" THEN 2 ELSE MaxEpochVal

VersionAt(u, e) == e - FirstEpoch(u) + 1

ValueState(u, e, val) ==
    [kind |-> "ValueState", username |-> u, epoch |-> e, version |-> VersionAt(u, e),
     label |-> <<u, VersionAt(u, e)>>, plaintext_val |-> val, latest_epoch |-> 0]

Azks(e) ==
    [kind |-> "Azks", username |-> "", epoch |-> 0, version |-> 0,
     label |-> <<>>, plaintext_val |-> "", latest_epoch |-> e]

ValueStates ==
    {ValueState(u, e, val) : u \in Users, e \in Epochs, val \in Values}

UserStates == {r \in ValueStates : r.epoch >= FirstEpoch(r.username)}

AzksRecords == {Azks(e) : e \in Epochs}

\* Storable::get_id: a ValueState is keyed by (username, epoch), the Azks by a constant
KeyOf(r) ==
    IF r.kind = "Azks"
    THEN [kind |-> "Azks", username |-> "", epoch |-> 0]
    ELSE [kind |-> "ValueState", username |-> r.username, epoch |-> r.epoch]

Lookup(store, k) == {r \in store : KeyOf(r) = k}

Put(store, r) == {x \in store : KeyOf(x) # KeyOf(r)} \cup {r}

RECURSIVE PutAll(_, _)
PutAll(store, rs) ==
    IF rs = <<>> THEN store ELSE PutAll(Put(store, Head(rs)), Tail(rs))

Range(s) == {s[i] : i \in 1..Len(s)}

UniqueKeys(store) == \A x, y \in store : KeyOf(x) = KeyOf(y) => x = y

\* The one element of a set that holds exactly one
The(S) == CHOOSE x \in S : TRUE

Ok(v) == [ok |-> TRUE, val |-> v, err |-> ""]
Err(e) == [ok |-> FALSE, val |-> <<>>, err |-> e]

\* StorageError kinds a store call can fail with, besides NotFound
DbErrors == {"Connection"}

\* A store call's answer: "" when it goes through, else the error it fails with
StoreAnswers == DbErrors \cup {""}

\* The same for the calls whose NotFound depends on nothing the model holds
AnyAnswers == StoreAnswers \cup {"NotFound"}

----------------------------------------------------------------------------
(* ValueStateRetrievalFlag and the selection it names *)

Flag(t, n) == [t |-> t, n |-> n]

Flags ==
    {Flag("SpecificVersion", v) : v \in Epochs} \cup
    {Flag("SpecificEpoch", e) : e \in Epochs} \cup
    {Flag("LeqEpoch", e) : e \in Epochs} \cup
    {Flag("MaxEpoch", 0), Flag("MinEpoch", 0)}

StatesOf(store, u) == {r \in store : r.kind = "ValueState" /\ r.username = u}

\* The state among `states` (one user's) that the flag selects, if any
SelectState(states, flag) ==
    CASE flag.t = "SpecificVersion" -> {r \in states : r.version = flag.n}
      [] flag.t = "SpecificEpoch" -> {r \in states : r.epoch = flag.n}
      [] flag.t = "LeqEpoch" ->
            {r \in states : r.epoch <= flag.n /\
                \A x \in states : x.epoch <= flag.n => x.epoch <= r.epoch}
      [] flag.t = "MaxEpoch" -> {r \in states : \A x \in states : x.epoch <= r.epoch}
      [] flag.t = "MinEpoch" -> {r \in states : \A x \in states : x.epoch >= r.epoch}

----------------------------------------------------------------------------
(* Transaction buffer *)

TxGet(k) == Lookup(mods, k)

TxGetUserState(u, flag) == SelectState(StatesOf(mods, u), flag)

\* get_users_states: the users among `usernames` with a staged state the flag selects
TxGetUsersStates(usernames, flag) ==
    [u \in {x \in Range(usernames) : TxGetUserState(x, flag) # {}} |->
        The(TxGetUserState(u, flag))]

\* get_users_data, for one user: the states of the user staged in the buffer
TxGetUsersData(u) == StatesOf(mods, u)

\* The orders in which commit_transaction can hand back the staged records: any
\* order of them that ends with the Azks record, when one is staged.
CommitOrders(staged) ==
    {s \in [1..Cardinality(staged) -> staged] :
        /\ Range(s) = staged
        /\ \A i \in 1..Len(s) : s[i].kind = "Azks" => i = Len(s)}

----------------------------------------------------------------------------
(* Timed cache *)

CachePut(c, r) == IF cacheOn THEN Put(c, r) ELSE c

CacheBatchPut(c, rs) == IF cacheOn THEN PutAll(c, rs) ELSE c

CacheHitTest(k) == IF cacheOn THEN Lookup(cache, k) ELSE {}

\* What a cache write leaves in the log
PutLog(r) == IF cacheOn THEN <<[call |-> "cache.put", recs |-> <<r>>]>> ELSE <<>>

BatchPutLog(rs) == IF cacheOn THEN <<[call |-> "cache.batch_put", recs |-> rs]>> ELSE <<>>

----------------------------------------------------------------------------
(* Backing store *)

DbGet(k) == Lookup(db, k)

DbGetUserState(u, flag) == SelectState(StatesOf(db, u), flag)

Metric(m) == <<[call |-> "metric", metric |-> m]>>

DbCall(name, arg) == <<[call |-> name, arg |-> arg]>>

\* The error a store call came back with, as the `?` after it sees it
StoreFailed(e) == <<[call |-> "db.error", err |-> e]>>

\* get_user_state_versions: the version and the value of each user's selected state
DbGetUserStateVersions(usernames, flag) ==
    [u \in {x \in Range(usernames) : DbGetUserState(x, flag) # {}} |->
        <<The(DbGetUserState(u, flag)).version, The(DbGetUserState(u, flag)).plaintext_val>>]

\* get_user_data: the user's states as a KeyData (their order in it is not
\* significant). For a user without any the store answers NotFound, or an empty KeyData.
KeyData(states) == [states |-> states]

DbUserDataAnswers(u) ==
    IF StatesOf(db, u) = {} THEN {"NotFound", ""} ELSE {""}

DbBatchSetCall(rs, mode) == <<[call |-> "db.batch_set", recs |-> rs, mode |-> mode]>>

----------------------------------------------------------------------------
(* The mediator's operations *)

Call(name, args) == [name |-> name, args |-> args]

begin_transaction ==
    /\ active' = TRUE
    /\ can_clean' = IF cacheOn THEN FALSE ELSE can_clean
    /\ op' = Call("begin_transaction", <<>>)
    /\ UNCHANGED conc
    /\ result' = Ok(~active)
    /\ log' = <<>>
    /\ UNCHANGED <<cacheOn, cache, mods, db>>

\* CommitWrite tagging the store write General, as batch_set does
CommitWriteGeneral(records) ==
    /\ cache' = CacheBatchPut(cache, records)
    /\ \E fail \in AnyAnswers :
        IF fail # ""
        THEN /\ result' = Err(fail)
             /\ log' = BatchPutLog(records) \o DbBatchSetCall(records, "General") \o StoreFailed(fail)
             /\ UNCHANGED db
        ELSE /\ db' = PutAll(db, records)
             /\ result' = Ok(<<>>)
             /\ log' = BatchPutLog(records) \o DbBatchSetCall(records, "General")
                        \o Metric(METRIC_BATCH_SET)

\* Lines 196-208: the cache is updated, then the store is written
CommitWrite(records) ==
    /\ cache' = CacheBatchPut(cache, records)
    /\ \E fail \in AnyAnswers :
        IF fail # ""
        THEN /\ result' = Err(fail)
             /\ log' = BatchPutLog(records) \o DbBatchSetCall(records, "TransactionCommit") \o StoreFailed(fail)
             /\ UNCHANGED db
        ELSE /\ db' = PutAll(db, records)
             /\ result' = Ok(<<>>)
             /\ log' = BatchPutLog(records) \o DbBatchSetCall(records, "TransactionCommit")
                        \o Metric(METRIC_BATCH_SET)

\* commit_transaction updating the cache before it looks at the last record
commit_transaction_CacheFirst(records) ==
    /\ op' = Call("commit_transaction", <<mods>>)
    /\ UNCHANGED conc
    /\ IF ~active
       THEN /\ result' = Err("Transaction")
            /\ log' = <<>>
            /\ UNCHANGED <<cacheOn, cache, can_clean, active, mods, db>>
       ELSE /\ records \in CommitOrders(mods)
            /\ active' = FALSE
            /\ mods' = {}
            /\ can_clean' = IF cacheOn THEN TRUE ELSE can_clean
            /\ UNCHANGED cacheOn
            /\ IF records = <<>>
               THEN /\ result' = Ok(<<>>)
                    /\ log' = <<>>
                    /\ UNCHANGED <<cache, db>>
               ELSE IF records[Len(records)].kind # "Azks"
               THEN /\ result' = Err("Transaction")
                    /\ cache' = CacheBatchPut(cache, records)
                    /\ log' = BatchPutLog(records)
                    /\ UNCHANGED db
               ELSE CommitWrite(records)

\* commit_transaction without the early return on an empty list of records
commit_transaction_NoEmptyCheck(records) ==
    /\ op' = Call("commit_transaction", <<mods>>)
    /\ UNCHANGED conc
    /\ IF ~active
       THEN /\ result' = Err("Transaction")
            /\ log' = <<>>
            /\ UNCHANGED <<cacheOn, cache, can_clean, active, mods, db>>
       ELSE /\ records \in CommitOrders(mods)
            /\ active' = FALSE
            /\ mods' = {}
            /\ can_clean' = IF cacheOn THEN TRUE ELSE can_clean
            /\ UNCHANGED cacheOn
            /\ IF records = <<>> \/ records[Len(records)].kind # "Azks"
               THEN /\ result' = Err("Transaction")
                    /\ log' = <<>>
                    /\ UNCHANGED <<cache, db>>
               ELSE CommitWrite(records)

commit_transaction(records) ==
    /\ op' = Call("commit_transaction", <<mods>>)
    /\ UNCHANGED conc
    /\ IF ~active
       THEN \* transaction.commit_transaction() fails and `?` returns its error
            /\ result' = Err("Transaction")
            /\ log' = <<>>
            /\ UNCHANGED <<cacheOn, cache, can_clean, active, mods, db>>
       ELSE /\ records \in CommitOrders(mods)
            /\ active' = FALSE
            /\ mods' = {}
            /\ can_clean' = IF cacheOn THEN TRUE ELSE can_clean
            /\ UNCHANGED cacheOn
            /\ IF records = <<>>
               THEN /\ result' = Ok(<<>>)
                    /\ log' = <<>>
                    /\ UNCHANGED <<cache, db>>
               ELSE IF records[Len(records)].kind # "Azks"
               THEN /\ result' = Err("Transaction")
                    /\ log' = <<>>
                    /\ UNCHANGED <<cache, db>>
               ELSE CommitWrite(records)

rollback_transaction ==
    /\ op' = Call("rollback_transaction", <<mods>>)
    /\ UNCHANGED conc
    /\ log' = <<>>
    /\ IF ~active
       THEN \* transaction.rollback_transaction() fails and `?` returns its error
            /\ result' = Err("Transaction")
            /\ UNCHANGED <<cacheOn, cache, can_clean, active, mods, db>>
       ELSE /\ active' = FALSE
            /\ mods' = {}
            /\ can_clean' = IF cacheOn THEN TRUE ELSE can_clean
            /\ result' = Ok(<<>>)
            /\ UNCHANGED <<cacheOn, cache, db>>

is_transaction_active == active

\* set falling through to the cache and the store after staging the record
set_FallThrough(record) ==
    /\ op' = Call("set", <<record>>)
    /\ UNCHANGED conc
    /\ mods' = IF is_transaction_active THEN Put(mods, record) ELSE mods
    /\ cache' = CachePut(cache, record)
    /\ \E fail \in AnyAnswers :
        IF fail # ""
        THEN /\ result' = Err(fail)
             /\ log' = PutLog(record) \o DbCall("db.set", record) \o StoreFailed(fail)
             /\ UNCHANGED db
        ELSE /\ db' = Put(db, record)
             /\ result' = Ok(<<>>)
             /\ log' = PutLog(record) \o DbCall("db.set", record) \o Metric(METRIC_SET)
    /\ UNCHANGED <<cacheOn, can_clean, active>>

set(record) ==
    /\ op' = Call("set", <<record>>)
    /\ UNCHANGED conc
    /\ IF is_transaction_active
       THEN /\ mods' = Put(mods, record)
            /\ result' = Ok(<<>>)
            /\ log' = <<>>
            /\ UNCHANGED <<cacheOn, cache, can_clean, active, db>>
       ELSE /\ cache' = CachePut(cache, record)
            /\ \E fail \in AnyAnswers :
                IF fail # ""
                THEN /\ result' = Err(fail)
                     /\ log' = PutLog(record) \o DbCall("db.set", record) \o StoreFailed(fail)
                     /\ UNCHANGED db
                ELSE /\ db' = Put(db, record)
                     /\ result' = Ok(<<>>)
                     /\ log' = PutLog(record) \o DbCall("db.set", record)
                                \o Metric(METRIC_SET)
            /\ UNCHANGED <<cacheOn, can_clean, active, mods>>

batch_set(records) ==
    /\ op' = Call("batch_set", <<records>>)
    /\ UNCHANGED conc
    /\ IF records = <<>>
       THEN /\ result' = Ok(<<>>)
            /\ log' = <<>>
            /\ UNCHANGED <<cacheOn, cache, can_clean, active, mods, db>>
       ELSE IF is_transaction_active
       THEN /\ mods' = PutAll(mods, records)
            /\ result' = Ok(<<>>)
            /\ log' = <<>>
            /\ UNCHANGED <<cacheOn, cache, can_clean, active, db>>
       ELSE /\ cache' = CacheBatchPut(cache, records)
            /\ \E fail \in AnyAnswers :
                IF fail # ""
                THEN /\ result' = Err(fail)
                     /\ log' = BatchPutLog(records) \o DbBatchSetCall(records, "General") \o StoreFailed(fail)
                     /\ UNCHANGED db
                ELSE /\ db' = PutAll(db, records)
                     /\ result' = Ok(<<>>)
                     /\ log' = BatchPutLog(records) \o DbBatchSetCall(records, "General")
                                \o Metric(METRIC_BATCH_SET)
            /\ UNCHANGED <<cacheOn, can_clean, active, mods>>

\* GetFromDb counting the read and caching nothing when the store has no record
GetFromDb_CountsNotFound(id) ==
    \E fail \in StoreAnswers :
        IF fail # ""
        THEN /\ result' = Err(fail)
             /\ log' = DbCall("db.get", id) \o StoreFailed(fail)
             /\ UNCHANGED cache
        ELSE IF DbGet(id) = {}
        THEN /\ result' = Err("NotFound")
             /\ log' = DbCall("db.get", id) \o StoreFailed("NotFound") \o Metric(METRIC_GET)
             /\ UNCHANGED cache
        ELSE /\ result' = Ok(The(DbGet(id)))
             /\ cache' = CachePut(cache, The(DbGet(id)))
             /\ log' = DbCall("db.get", id) \o PutLog(The(DbGet(id))) \o Metric(METRIC_GET)

\* Lines 304-313: the cache missed, the store is read and its answer cached
GetFromDb(id) ==
    \E fail \in StoreAnswers :
        IF fail # ""
        THEN /\ result' = Err(fail)
             /\ log' = DbCall("db.get", id) \o StoreFailed(fail)
             /\ UNCHANGED cache
        ELSE IF DbGet(id) = {}
        THEN /\ result' = Err("NotFound")
             /\ log' = DbCall("db.get", id) \o StoreFailed("NotFound")
             /\ UNCHANGED cache
        ELSE /\ result' = Ok(The(DbGet(id)))
             /\ cache' = CachePut(cache, The(DbGet(id)))
             /\ log' = DbCall("db.get", id) \o PutLog(The(DbGet(id))) \o Metric(METRIC_GET)

\* get trying the cache before the transaction
get_CacheFirst(id) ==
    /\ op' = Call("get", <<id>>)
    /\ UNCHANGED conc
    /\ IF CacheHitTest(id) # {}
       THEN /\ result' = Ok(The(CacheHitTest(id)))
            /\ log' = <<>>
            /\ UNCHANGED cache
       ELSE IF is_transaction_active /\ TxGet(id) # {}
       THEN /\ result' = Ok(The(TxGet(id)))
            /\ log' = <<>>
            /\ UNCHANGED cache
       ELSE GetFromDb(id)
    /\ UNCHANGED <<cacheOn, can_clean, active, mods, db>>

get(id) ==
    /\ op' = Call("get", <<id>>)
    /\ UNCHANGED conc
    /\ IF is_transaction_active /\ TxGet(id) # {}
       THEN /\ result' = Ok(The(TxGet(id)))
            /\ log' = <<>>
            /\ UNCHANGED cache
       ELSE IF CacheHitTest(id) # {}
       THEN /\ result' = Ok(The(CacheHitTest(id)))
            /\ log' = <<>>
            /\ UNCHANGED cache
       ELSE GetFromDb(id)
    /\ UNCHANGED <<cacheOn, can_clean, active, mods, db>>

\* What the loop over ids finds for one id: the staged record when a transaction
\* is active and holds one, else the cached one
BatchHit(id) ==
    IF is_transaction_active /\ TxGet(id) # {} THEN TxGet(id) ELSE CacheHitTest(id)

RECURSIVE BatchHits(_)
BatchHits(ids) ==
    IF ids = <<>> THEN <<>>
    ELSE (IF BatchHit(Head(ids)) # {} THEN <<The(BatchHit(Head(ids)))>> ELSE <<>>)
            \o BatchHits(Tail(ids))

\* key_set once the loop is over: the ids that hit neither
BatchResidual(ids) == {id \in Range(ids) : BatchHit(id) = {}}

\* The orders in which a set can be collected into a Vec
Orders(S) == {s \in [1..Cardinality(S) -> S] : Range(s) = S}

RECURSIVE DbBatchGet(_)
DbBatchGet(keys) ==
    IF keys = <<>> THEN <<>>
    ELSE (IF DbGet(Head(keys)) # {} THEN <<The(DbGet(Head(keys)))>> ELSE <<>>)
            \o DbBatchGet(Tail(keys))

\* batch_get asking the store for every id that missed, as often as it occurs in ids
batch_get_NoDedup(ids) ==
    /\ op' = Call("batch_get", <<ids>>)
    /\ UNCHANGED conc
    /\ IF ids = <<>>
       THEN /\ result' = Ok(<<>>)
            /\ log' = <<>>
       ELSE IF BatchResidual(ids) = {}
       THEN /\ result' = Ok(BatchHits(ids))
            /\ log' = <<>>
       ELSE \E fail \in AnyAnswers :
            LET keys == SelectSeq(ids, LAMBDA id : BatchHit(id) = {})
            IN  IF fail # ""
                THEN /\ result' = Err(fail)
                     /\ log' = DbCall("db.batch_get", keys) \o StoreFailed(fail)
                ELSE /\ result' = Ok(BatchHits(ids) \o DbBatchGet(keys))
                     /\ log' = DbCall("db.batch_get", keys) \o Metric(METRIC_BATCH_GET)
    /\ UNCHANGED <<cacheOn, cache, can_clean, active, mods, db>>

batch_get(ids) ==
    /\ op' = Call("batch_get", <<ids>>)
    /\ UNCHANGED conc
    /\ IF ids = <<>>
       THEN /\ result' = Ok(<<>>)
            /\ log' = <<>>
       ELSE IF BatchResidual(ids) = {}
       THEN /\ result' = Ok(BatchHits(ids))
            /\ log' = <<>>
       ELSE \E keys \in Orders(BatchResidual(ids)), fail \in AnyAnswers :
            IF fail # ""
            THEN /\ result' = Err(fail)
                 /\ log' = DbCall("db.batch_get", keys) \o StoreFailed(fail)
            ELSE /\ result' = Ok(BatchHits(ids) \o DbBatchGet(keys))
                 /\ log' = DbCall("db.batch_get", keys) \o Metric(METRIC_BATCH_GET)
    /\ UNCHANGED <<cacheOn, cache, can_clean, active, mods, db>>

\* Lines 383-389: the copy of a ValueState with the tombstone as its value
Tombstoned(value_state) ==
    [kind |-> "ValueState", username |-> value_state.username, epoch |-> value_state.epoch,
     version |-> value_state.version, label |-> value_state.label,
     plaintext_val |-> TOMBSTONE, latest_epoch |-> 0]

\* Lines 381-392: new_data, the tombstoned copies of the ValueStates in data
RECURSIVE NewData(_)
NewData(data) ==
    IF data = <<>> THEN <<>>
    ELSE (IF Head(data).kind = "ValueState" THEN <<Tombstoned(Head(data))>> ELSE <<>>)
            \o NewData(Tail(data))

\* What the batch_get of line 379 logs, given the store's answer
TombstoneGetLog(keys, order, getfail) ==
    IF BatchResidual(keys) = {} THEN <<>>
    ELSE IF getfail # "" THEN DbCall("db.batch_get", order)
    ELSE DbCall("db.batch_get", order) \o Metric(METRIC_BATCH_GET)

\* tombstone_value_states writing the copies to the cache and the store although a
\* transaction is active
tombstone_WriteThrough(keys) ==
    /\ op' = Call("tombstone_value_states", <<keys>>)
    /\ UNCHANGED conc
    /\ IF keys = <<>>
       THEN /\ result' = Ok(<<>>)
            /\ log' = <<>>
            /\ UNCHANGED <<cache, mods, db>>
       ELSE \E order \in Orders(BatchResidual(keys)), getfail \in StoreAnswers,
               setfail \in StoreAnswers :
            LET getlog == TombstoneGetLog(keys, order, getfail)
                new_data == NewData(BatchHits(keys) \o DbBatchGet(order))
            IN  IF BatchResidual(keys) # {} /\ getfail # ""
                THEN /\ result' = Err(getfail)
                     /\ log' = getlog
                     /\ UNCHANGED <<cache, mods, db>>
                ELSE IF new_data = <<>>
                THEN /\ result' = Ok(<<>>)
                     /\ log' = getlog
                     /\ UNCHANGED <<cache, mods, db>>
                ELSE /\ cache' = CacheBatchPut(cache, new_data)
                     /\ mods' = IF is_transaction_active THEN PutAll(mods, new_data) ELSE mods
                     /\ IF setfail # ""
                        THEN /\ result' = Err(setfail)
                             /\ log' = getlog \o BatchPutLog(new_data)
                                        \o DbBatchSetCall(new_data, "General")
                             /\ UNCHANGED db
                        ELSE /\ db' = PutAll(db, new_data)
                             /\ result' = Ok(<<>>)
                             /\ log' = getlog \o BatchPutLog(new_data)
                                        \o DbBatchSetCall(new_data, "General")
                                        \o Metric(METRIC_BATCH_SET) \o Metric(METRIC_TOMBSTONE)
    /\ UNCHANGED <<cacheOn, can_clean, active>>

\* Lines 374-399: batch_get of the keys, then batch_set of the tombstoned copies
tombstone_value_states(keys) ==
    /\ op' = Call("tombstone_value_states", <<keys>>)
    /\ UNCHANGED conc
    /\ IF keys = <<>>
       THEN /\ result' = Ok(<<>>)
            /\ log' = <<>>
            /\ UNCHANGED <<cache, mods, db>>
       ELSE \E order \in Orders(BatchResidual(keys)), getfail \in StoreAnswers,
               setfail \in StoreAnswers :
            LET getlog == TombstoneGetLog(keys, order, getfail)
                new_data == NewData(BatchHits(keys) \o DbBatchGet(order))
            IN  IF BatchResidual(keys) # {} /\ getfail # ""
                THEN /\ result' = Err(getfail)
                     /\ log' = getlog
                     /\ UNCHANGED <<cache, mods, db>>
                ELSE IF new_data = <<>>
                THEN /\ result' = Ok(<<>>)
                     /\ log' = getlog
                     /\ UNCHANGED <<cache, mods, db>>
                ELSE IF is_transaction_active
                THEN /\ mods' = PutAll(mods, new_data)
                     /\ result' = Ok(<<>>)
                     /\ log' = getlog \o Metric(METRIC_TOMBSTONE)
                     /\ UNCHANGED <<cache, db>>
                ELSE /\ cache' = CacheBatchPut(cache, new_data)
                     /\ UNCHANGED mods
                     /\ IF setfail # ""
                        THEN /\ result' = Err(setfail)
                             /\ log' = getlog \o BatchPutLog(new_data)
                                        \o DbBatchSetCall(new_data, "General")
                             /\ UNCHANGED db
                        ELSE /\ db' = PutAll(db, new_data)
                             /\ result' = Ok(<<>>)
                             /\ log' = getlog \o BatchPutLog(new_data)
                                        \o DbBatchSetCall(new_data, "General")
                                        \o Metric(METRIC_BATCH_SET) \o Metric(METRIC_TOMBSTONE)
    /\ UNCHANGED <<cacheOn, can_clean, active>>

\* compare_db_and_transaction_records with strict comparisons: a staged state of the
\* persisted state's epoch does not override it
compare_Strict(state_epoch, transaction_value, flag) ==
    CASE flag.t = "SpecificVersion" -> {transaction_value}
      [] flag.t = "SpecificEpoch" -> {transaction_value}
      [] flag.t = "LeqEpoch" ->
            IF transaction_value.epoch > state_epoch THEN {transaction_value} ELSE {}
      [] flag.t = "MaxEpoch" ->
            IF transaction_value.epoch > state_epoch THEN {transaction_value} ELSE {}
      [] flag.t = "MinEpoch" ->
            IF transaction_value.epoch < state_epoch THEN {transaction_value} ELSE {}

\* compare_db_and_transaction_records keeping the persisted state under the Specific flags
compare_SpecificKeepsDb(state_epoch, transaction_value, flag) ==
    CASE flag.t = "SpecificVersion" -> {}
      [] flag.t = "SpecificEpoch" -> {}
      [] flag.t = "LeqEpoch" ->
            IF transaction_value.epoch >= state_epoch THEN {transaction_value} ELSE {}
      [] flag.t = "MaxEpoch" ->
            IF transaction_value.epoch >= state_epoch THEN {transaction_value} ELSE {}
      [] flag.t = "MinEpoch" ->
            IF transaction_value.epoch <= state_epoch THEN {transaction_value} ELSE {}

\* Some(transaction_value) when the staged state overrides the persisted one, else None
compare_db_and_transaction_records(state_epoch, transaction_value, flag) ==
    CASE flag.t = "SpecificVersion" -> {transaction_value}
      [] flag.t = "SpecificEpoch" -> {transaction_value}
      [] flag.t = "LeqEpoch" ->
            IF transaction_value.epoch >= state_epoch THEN {transaction_value} ELSE {}
      [] flag.t = "MaxEpoch" ->
            IF transaction_value.epoch >= state_epoch THEN {transaction_value} ELSE {}
      [] flag.t = "MinEpoch" ->
            IF transaction_value.epoch <= state_epoch THEN {transaction_value} ELSE {}

DbUserCall(name, arg, fail) == <<[call |-> name, arg |-> arg, fail |-> fail]>>

\* Lines 420-435: the staged state get_user_state returns before it looks at
\* maybe_db_state again, if any
UserStateFromTransaction(username, flag, maybe_db_state) ==
    IF is_transaction_active /\ TxGetUserState(username, flag) # {}
    THEN IF maybe_db_state # {}
         THEN compare_db_and_transaction_records(
                    The(maybe_db_state).epoch, The(TxGetUserState(username, flag)), flag)
         ELSE TxGetUserState(username, flag)
    ELSE {}

\* get_user_state caching the staged state it returns
get_user_state_CacheStaged(username, flag) ==
    /\ op' = Call("get_user_state", <<username, flag>>)
    /\ UNCHANGED conc
    /\ \E fail \in StoreAnswers :
        IF fail # ""
        THEN /\ result' = Err(fail)
             /\ log' = DbUserCall("db.get_user_state", <<username, flag>>, fail)
             /\ UNCHANGED cache
        ELSE LET maybe_db_state == DbGetUserState(username, flag)
                 staged == UserStateFromTransaction(username, flag, maybe_db_state)
                 state == IF staged # {} THEN staged ELSE maybe_db_state
             IN  IF state # {}
                 THEN /\ result' = Ok(The(state))
                      /\ cache' = CachePut(cache, The(state))
                      /\ log' = DbUserCall("db.get_user_state", <<username, flag>>, fail)
                                    \o Metric(METRIC_GET_USER_STATE)
                                    \o PutLog(The(state))
                 ELSE /\ result' = Err("NotFound")
                      /\ log' = DbUserCall("db.get_user_state", <<username, flag>>, fail)
                                    \o Metric(METRIC_GET_USER_STATE)
                      /\ UNCHANGED cache
    /\ UNCHANGED <<cacheOn, can_clean, active, mods, db>>

get_user_state(username, flag) ==
    /\ op' = Call("get_user_state", <<username, flag>>)
    /\ UNCHANGED conc
    /\ \E fail \in StoreAnswers :
        IF fail # ""
        THEN /\ result' = Err(fail)
             /\ log' = DbUserCall("db.get_user_state", <<username, flag>>, fail)
             /\ UNCHANGED cache
        ELSE LET maybe_db_state == DbGetUserState(username, flag)
                 staged == UserStateFromTransaction(username, flag, maybe_db_state)
             IN  IF staged # {}
                 THEN /\ result' = Ok(The(staged))
                      /\ log' = DbUserCall("db.get_user_state", <<username, flag>>, fail)
                                    \o Metric(METRIC_GET_USER_STATE)
                      /\ UNCHANGED cache
                 ELSE IF maybe_db_state # {}
                 THEN /\ result' = Ok(The(maybe_db_state))
                      /\ cache' = CachePut(cache, The(maybe_db_state))
                      /\ log' = DbUserCall("db.get_user_state", <<username, flag>>, fail)
                                    \o Metric(METRIC_GET_USER_STATE)
                                    \o PutLog(The(maybe_db_state))
                 ELSE /\ result' = Err("NotFound")
                      /\ log' = DbUserCall("db.get_user_state", <<username, flag>>, fail)
                                    \o Metric(METRIC_GET_USER_STATE)
                      /\ UNCHANGED cache
    /\ UNCHANGED <<cacheOn, can_clean, active, mods, db>>

\* Lines 516-529: one label's entry once the staged states are merged into `data`
MergedVersion(data, transaction_records, label, flag) ==
    IF label \in DOMAIN transaction_records
    THEN IF label \in DOMAIN data
         THEN IF compare_db_and_transaction_records(
                        data[label][1], transaction_records[label], flag) # {}
              THEN <<data[label][1], transaction_records[label].plaintext_val>>
              ELSE data[label]
         ELSE <<transaction_records[label].epoch, transaction_records[label].plaintext_val>>
    ELSE data[label]

\* get_user_state_versions with the store's NotFound folded to "no versions", the
\* way the single-user queries fold it
get_user_state_versions_FoldsNotFound(usernames, flag) ==
    /\ op' = Call("get_user_state_versions", <<usernames, flag>>)
    /\ UNCHANGED conc
    /\ \E fail \in AnyAnswers :
        IF fail \in DbErrors
        THEN /\ result' = Err(fail)
             /\ log' = DbUserCall("db.get_user_state_versions", <<usernames, flag>>, fail)
        ELSE LET data == IF fail = "" THEN DbGetUserStateVersions(usernames, flag) ELSE <<>>
                 transaction_records ==
                    IF is_transaction_active
                    THEN TxGetUsersStates(usernames, flag)
                    ELSE <<>>
             IN  /\ result' = Ok([label \in DOMAIN data \cup DOMAIN transaction_records |->
                                    MergedVersion(data, transaction_records, label, flag)])
                 /\ log' = DbUserCall("db.get_user_state_versions", <<usernames, flag>>, fail)
                                \o Metric(METRIC_GET_USER_STATE_VERSIONS)
    /\ UNCHANGED <<cacheOn, cache, can_clean, active, mods, db>>

get_user_state_versions(usernames, flag) ==
    /\ op' = Call("get_user_state_versions", <<usernames, flag>>)
    /\ UNCHANGED conc
    /\ \E fail \in AnyAnswers :
        IF fail # ""
        THEN /\ result' = Err(fail)
             /\ log' = DbUserCall("db.get_user_state_versions", <<usernames, flag>>, fail)
        ELSE LET data == DbGetUserStateVersions(usernames, flag)
                 transaction_records ==
                    IF is_transaction_active
                    THEN TxGetUsersStates(usernames, flag)
                    ELSE <<>>
             IN  /\ result' = Ok([label \in DOMAIN data \cup DOMAIN transaction_records |->
                                    MergedVersion(data, transaction_records, label, flag)])
                 /\ log' = DbUserCall("db.get_user_state_versions", <<usernames, flag>>, fail)
                                \o Metric(METRIC_GET_USER_STATE_VERSIONS)
    /\ UNCHANGED <<cacheOn, cache, can_clean, active, mods, db>>

\* get_user_data keeping the persisted state of an epoch that has a staged state too
get_user_data_DbWins(username) ==
    /\ op' = Call("get_user_data", <<username>>)
    /\ UNCHANGED conc
    /\ \E fail \in DbErrors \cup DbUserDataAnswers(username) :
        /\ log' = DbUserCall("db.get_user_data", <<username>>, fail)
                    \o (IF fail \in DbErrors THEN <<>> ELSE Metric(METRIC_GET_USER_DATA))
        /\ result' =
            IF fail \in DbErrors THEN Err(fail)
            ELSE IF is_transaction_active
            THEN Ok(KeyData(
                    (IF fail = "" THEN StatesOf(db, username) ELSE {}) \cup
                    {t \in TxGetUsersData(username) :
                        fail # "" \/ \A d \in StatesOf(db, username) : d.epoch # t.epoch}))
            ELSE IF fail = "" THEN Ok(KeyData(StatesOf(db, username)))
            ELSE Err("NotFound")
    /\ UNCHANGED <<cacheOn, cache, can_clean, active, mods, db>>

\* Lines 450-495. maybe_db_data is the store's KeyData, or None on NotFound; with a
\* transaction active its states are keyed by epoch and each staged state is
\* inserted over them.
get_user_data(username) ==
    /\ op' = Call("get_user_data", <<username>>)
    /\ UNCHANGED conc
    /\ \E fail \in DbErrors \cup DbUserDataAnswers(username) :
        /\ log' = DbUserCall("db.get_user_data", <<username>>, fail)
                    \o (IF fail \in DbErrors THEN <<>> ELSE Metric(METRIC_GET_USER_DATA))
        /\ result' =
            IF fail \in DbErrors THEN Err(fail)
            ELSE IF is_transaction_active
            THEN Ok(KeyData(
                    {d \in (IF fail = "" THEN StatesOf(db, username) ELSE {}) :
                        \A t \in TxGetUsersData(username) : t.epoch # d.epoch}
                    \cup TxGetUsersData(username)))
            ELSE IF fail = "" THEN Ok(KeyData(StatesOf(db, username)))
            ELSE Err("NotFound")
    /\ UNCHANGED <<cacheOn, cache, can_clean, active, mods, db>>

flush_cache ==
    /\ cacheOn
    /\ cache' = {}
    /\ op' = Call("flush_cache", <<>>)
    /\ UNCHANGED conc
    /\ result' = Ok(<<>>)
    /\ log' = <<>>
    /\ UNCHANGED <<cacheOn, can_clean, active, mods, db>>

\* The cache's cleaner: while cleaning is enabled, an entry can expire
CacheClean(r) ==
    /\ cacheOn /\ can_clean
    /\ r \in cache
    /\ cache' = cache \ {r}
    /\ op' = Call("cache.clean", <<r>>)
    /\ UNCHANGED conc
    /\ result' = Ok(<<>>)
    /\ log' = <<>>
    /\ UNCHANGED <<cacheOn, can_clean, active, mods, db>>

----------------------------------------------------------------------------
(* The same operations as run by concurrent tasks sharing the mediator: one step  *)
(* per access to the transaction, the cache or the store, which is where a call   *)
(* can be suspended and another task's call can run.                              *)

Tasks == {"t1", "t2"}

\* A task between calls; `call` and `ret` are its last call and what it returned.
\* `expect` is, for a get, the committed record it must return, when there is one,
\* and for a commit_transaction, the keys that a set has been writing while it ran.
\* `during` tells, for a get, that it was called while a commit_transaction was running,
\* and for a set, that another write of its key, a commit or a rollback began while it ran.
\* For a set that returned Ok, `expect` is the record it wrote, as long as nothing
\* else writes its key and no rollback happens; `own` is, for the get that the task
\* calls next, that record.
IdleTask ==
    [pc |-> "idle", call |-> "", arg |-> <<>>, loc |-> <<>>, ret |-> Ok(<<>>), expect |-> {},
     during |-> FALSE, own |-> {}]

\* Task x's record once another call writes key k: a set that returned and a get in
\* flight on k no longer have a record they must read back
Overwritten(x, k) ==
    IF tasks[x].call = "set" /\ KeyOf(tasks[x].arg) = k
    THEN [tasks[x] EXCEPT !.expect = {}, !.during = (tasks[x].pc # "idle")]
    ELSE IF tasks[x].call = "get" /\ tasks[x].pc # "idle" /\ tasks[x].arg = k
    THEN [tasks[x] EXCEPT !.own = {}]
    ELSE tasks[x]

\* Task x's record once a commit or a rollback takes the staged records away
Unstaged(x, keys) ==
    IF tasks[x].call = "set" /\ tasks[x].pc # "idle"
    THEN [tasks[x] EXCEPT !.during = TRUE]
    ELSE IF tasks[x].call = "set" /\ KeyOf(tasks[x].arg) \in keys
    THEN [tasks[x] EXCEPT !.expect = {}]
    ELSE IF tasks[x].call = "get" /\ tasks[x].pc # "idle" /\ tasks[x].arg \in keys
    THEN [tasks[x] EXCEPT !.own = {}]
    ELSE tasks[x]

\* The keys a ValueState or the Azks record can have
AllKeys == {KeyOf(r) : r \in ValueStates \cup AzksRecords}

\* A commit_transaction is running
Committing == \E c \in Tasks : tasks[c].call = "commit_transaction" /\ tasks[c].pc # "idle"

At(t, pc) == tasks[t].pc = pc

Goto(t, pc, loc) == [tasks EXCEPT ![t].pc = pc, ![t].loc = loc]

Return(t, ret) == [tasks EXCEPT ![t].pc = "idle", ![t].loc = <<>>, ![t].ret = ret]

\* The keys that a set in flight is writing
KeysBeingSet == {KeyOf(tasks[t].arg) : t \in {x \in Tasks : tasks[x].call = "set" /\ tasks[x].pc # "idle"}}

\* transaction.get: the buffer yields a staged record only while it is active
TxGetNow(k) == IF active THEN Lookup(mods, k) ELSE {}

\* get, line 291: is_transaction_active()
get_start(t, id) ==
    /\ At(t, "idle")
    /\ tasks' = [tasks EXCEPT ![t] =
                    [pc |-> IF active THEN "get_tx" ELSE "get_cache", call |-> "get",
                     arg |-> id, loc |-> <<>>, ret |-> Ok(<<>>), expect |-> Lookup(fresh, id),
                     during |-> Committing,
                     own |-> IF tasks[t].call = "set" THEN Lookup(tasks[t].expect, id) ELSE {}]]
    /\ UNCHANGED <<cacheOn, cache, can_clean, active, mods, db, fresh, seen, last>>

\* get, lines 292-294: transaction.get
get_tx(t) ==
    /\ At(t, "get_tx")
    /\ tasks' = IF TxGetNow(tasks[t].arg) # {}
                THEN Return(t, Ok(The(TxGetNow(tasks[t].arg))))
                ELSE Goto(t, "get_cache", <<>>)
    /\ seen' = seen \cup TxGetNow(tasks[t].arg)
    /\ UNCHANGED <<cacheOn, cache, can_clean, active, mods, db, fresh, last>>

\* get, lines 298-302: cache.hit_test
get_cache(t) ==
    /\ At(t, "get_cache")
    /\ tasks' = IF CacheHitTest(tasks[t].arg) # {}
                THEN Return(t, Ok(The(CacheHitTest(tasks[t].arg))))
                ELSE Goto(t, "get_db", <<>>)
    /\ UNCHANGED <<cacheOn, cache, can_clean, active, mods, db, fresh, seen, last>>

\* get, lines 305-307: db.get; without a cache the record is returned at once
get_db(t) ==
    /\ At(t, "get_db")
    /\ tasks' = IF DbGet(tasks[t].arg) = {}
                THEN Return(t, Err("NotFound"))
                ELSE IF cacheOn
                THEN Goto(t, "get_put", The(DbGet(tasks[t].arg)))
                ELSE Return(t, Ok(The(DbGet(tasks[t].arg))))
    /\ UNCHANGED <<cacheOn, cache, can_clean, active, mods, db, fresh, seen, last>>

\* get, lines 308-313: cache.put of the record read from the store
get_put(t) ==
    /\ At(t, "get_put")
    /\ cache' = CachePut(cache, tasks[t].loc)
    /\ tasks' = Return(t, Ok(tasks[t].loc))
    /\ UNCHANGED <<cacheOn, can_clean, active, mods, db, fresh, seen, last>>

\* set, line 230: is_transaction_active(). From here on a write to the key is under way.
set_start(t, record) ==
    /\ At(t, "idle")
    /\ tasks' = [x \in Tasks |->
                    IF x = t
                    THEN [pc |-> IF active THEN "set_tx" ELSE IF cacheOn THEN "set_cache" ELSE "set_db",
                          call |-> "set", arg |-> record, loc |-> <<>>, ret |-> Ok(<<>>),
                          expect |-> {}, own |-> {},
                          during |-> (KeyOf(record) \in KeysBeingSet \/ Committing)]
                    ELSE IF tasks[x].call = "get" /\ tasks[x].pc # "idle"
                            /\ tasks[x].arg = KeyOf(record)
                    THEN [tasks[x] EXCEPT !.expect = {}, !.own = {}]
                    ELSE IF tasks[x].call = "commit_transaction" /\ tasks[x].pc # "idle"
                    THEN [tasks[x] EXCEPT !.expect = @ \cup {KeyOf(record)}]
                    ELSE Overwritten(x, KeyOf(record))]
    /\ fresh' = {r \in fresh : KeyOf(r) # KeyOf(record)}
    /\ seen' = {r \in seen : KeyOf(r) # KeyOf(record)}
    /\ UNCHANGED <<cacheOn, cache, can_clean, active, mods, db, last>>

\* The record task t's set has written, to be read back by t: none when another
\* set or a commit was writing the same key meanwhile
Written(t) ==
    IF \/ tasks[t].during
       \/ \E x \in Tasks \ {t} :
            \/ tasks[x].call = "set" /\ tasks[x].pc # "idle"
                    /\ KeyOf(tasks[x].arg) = KeyOf(tasks[t].arg)
            \/ tasks[x].call = "commit_transaction" /\ tasks[x].pc # "idle"
    THEN {}
    ELSE {tasks[t].arg}

\* set, lines 231-232: transaction.set
set_tx(t) ==
    /\ At(t, "set_tx")
    /\ mods' = Put(mods, tasks[t].arg)
    /\ tasks' = [Return(t, Ok(<<>>)) EXCEPT ![t].expect = Written(t), ![t].during = FALSE]
    /\ UNCHANGED <<cacheOn, cache, can_clean, active, db, fresh, seen, last>>

\* set, lines 236-238: cache.put
set_cache(t) ==
    /\ At(t, "set_cache")
    /\ cache' = CachePut(cache, tasks[t].arg)
    /\ tasks' = Goto(t, "set_db", <<>>)
    /\ UNCHANGED <<cacheOn, can_clean, active, mods, db, fresh, seen, last>>

\* set, lines 241-243: db.set
set_db(t) ==
    /\ At(t, "set_db")
    /\ db' = Put(db, tasks[t].arg)
    /\ tasks' = [Return(t, Ok(<<>>)) EXCEPT ![t].expect = Written(t), ![t].during = FALSE]
    /\ UNCHANGED <<cacheOn, cache, can_clean, active, mods, fresh, seen, last>>

\* begin_transaction, line 161: transaction.begin_transaction
begin_start(t) ==
    /\ At(t, "idle")
    /\ active' = TRUE
    /\ tasks' = [tasks EXCEPT ![t] =
                    [pc |-> "begin_clean", call |-> "begin_transaction", arg |-> <<>>,
                     loc |-> ~active, ret |-> Ok(<<>>), expect |-> {}, during |-> FALSE,
                     own |-> {}]]
    /\ UNCHANGED <<cacheOn, cache, can_clean, mods, db, fresh, seen, last>>

\* begin_transaction, lines 165-169: cache.disable_clean
begin_clean(t) ==
    /\ At(t, "begin_clean")
    /\ can_clean' = IF cacheOn THEN FALSE ELSE can_clean
    /\ tasks' = Return(t, Ok(tasks[t].loc))
    /\ UNCHANGED <<cacheOn, cache, active, mods, db, fresh, seen, last>>

\* commit_transaction, line 175: transaction.commit_transaction drains the buffer
commit_start(t, records) ==
    /\ At(t, "idle")
    /\ IF ~active
       THEN /\ tasks' = [tasks EXCEPT ![t] =
                            [IdleTask EXCEPT !.call = "commit_transaction",
                                             !.ret = Err("Transaction")]]
            /\ UNCHANGED <<active, mods>>
       ELSE /\ records \in CommitOrders(mods)
            /\ active' = FALSE
            /\ mods' = {}
            /\ tasks' = [x \in Tasks |->
                            IF x = t
                            THEN [pc |-> "commit_clean", call |-> "commit_transaction",
                                  arg |-> <<>>, loc |-> records, ret |-> Ok(<<>>),
                                  expect |-> KeysBeingSet, during |-> FALSE, own |-> {}]
                            ELSE Unstaged(x, {KeyOf(r) : r \in Range(records)})]
    /\ UNCHANGED <<cacheOn, cache, can_clean, db, fresh, seen, last>>

\* commit_transaction, lines 179-194: cache.enable_clean, then the checks of the records
commit_clean(t) ==
    /\ At(t, "commit_clean")
    /\ can_clean' = IF cacheOn THEN TRUE ELSE can_clean
    /\ tasks' = IF tasks[t].loc = <<>>
                THEN Return(t, Ok(<<>>))
                ELSE IF tasks[t].loc[Len(tasks[t].loc)].kind # "Azks"
                THEN Return(t, Err("Transaction"))
                ELSE Goto(t, IF cacheOn THEN "commit_cache" ELSE "commit_db", tasks[t].loc)
    /\ seen' = IF tasks[t].loc = <<>> \/ tasks[t].loc[Len(tasks[t].loc)].kind # "Azks"
               THEN {} ELSE seen
    /\ UNCHANGED <<cacheOn, cache, active, mods, db, fresh, last>>

\* commit_transaction, lines 197-199: cache.batch_put
commit_cache(t) ==
    /\ At(t, "commit_cache")
    /\ cache' = CacheBatchPut(cache, tasks[t].loc)
    /\ tasks' = Goto(t, "commit_db", tasks[t].loc)
    /\ UNCHANGED <<cacheOn, can_clean, active, mods, db, fresh, seen, last>>

\* commit_transaction, lines 202-208: db.batch_set, and the return of Ok. The records
\* are committed from here on, but for the keys that a set was writing meanwhile.
commit_db(t) ==
    /\ At(t, "commit_db")
    /\ db' = PutAll(db, tasks[t].loc)
    /\ fresh' = {r \in PutAll(fresh, tasks[t].loc) : KeyOf(r) \notin tasks[t].expect}
    /\ tasks' = [Return(t, Ok(<<>>)) EXCEPT ![t].expect = {}]
    /\ seen' = {}
    /\ UNCHANGED <<cacheOn, cache, can_clean, active, mods, last>>

\* rollback_transaction, line 213: transaction.rollback_transaction
rollback_start(t) ==
    /\ At(t, "idle")
    /\ IF ~active
       THEN /\ tasks' = [tasks EXCEPT ![t] =
                            [IdleTask EXCEPT !.call = "rollback_transaction",
                                             !.ret = Err("Transaction")]]
            /\ UNCHANGED <<active, mods>>
       ELSE /\ active' = FALSE
            /\ mods' = {}
            /\ tasks' = [x \in Tasks |->
                            IF x = t
                            THEN [pc |-> "rollback_clean", call |-> "rollback_transaction",
                                  arg |-> <<>>, loc |-> <<>>, ret |-> Ok(<<>>), expect |-> {},
                                  during |-> FALSE, own |-> {}]
                            ELSE Unstaged(x, AllKeys)]
    /\ seen' = {}
    /\ UNCHANGED <<cacheOn, cache, can_clean, db, fresh, last>>

\* rollback_transaction, lines 216-219: cache.enable_clean
rollback_clean(t) ==
    /\ At(t, "rollback_clean")
    /\ can_clean' = IF cacheOn THEN TRUE ELSE can_clean
    /\ tasks' = Return(t, Ok(<<>>))
    /\ UNCHANGED <<cacheOn, cache, active, mods, db, fresh, seen, last>>

\* The cache's cleaner, running beside the tasks
CacheExpire(r) ==
    /\ cacheOn /\ can_clean
    /\ r \in cache
    /\ cache' = cache \ {r}
    /\ UNCHANGED <<cacheOn, can_clean, active, mods, db, conc, last>>

----------------------------------------------------------------------------
(* Inputs *)

BoundedSeqs(S, n) == UNION {[1..m -> S] : m \in 0..n}

\* Batches of records to write: no record twice (a key can be written twice)
Batches(S, n) ==
    {s \in BoundedSeqs(S, n) : \A i, j \in 1..Len(s) : s[i] = s[j] => i = j}

\* The records the key-level operations write: two values under one key, a second
\* key, and the directory's Azks record
Records ==
    {ValueState("u1", FirstEpoch("u1"), "a"), ValueState("u1", FirstEpoch("u1"), "b"),
     ValueState("u2", FirstEpoch("u2"), "a"), Azks(1)}

Keys == {KeyOf(r) : r \in Records}

\* batch_get is generic over one record kind: its ids are keys of one kind
ValueStateKeys == {k \in Keys : k.kind = "ValueState"}

Init ==
    /\ cacheOn \in BOOLEAN
    /\ cache = {}
    /\ can_clean = TRUE
    /\ active = FALSE
    /\ mods = {}
    /\ db = {}
    /\ op = Call("new", <<>>)
    /\ result = Ok(<<>>)
    /\ log = <<>>
    /\ tasks = [t \in Tasks |-> IdleTask]
    /\ fresh = {}
    /\ seen = {}

Next ==
    \/ begin_transaction
    \/ \E records \in CommitOrders(mods) : commit_transaction(records)
    \/ rollback_transaction
    \/ \E r \in Records : set(r)
    \/ \E rs \in Batches(Records, MaxBatch) : batch_set(rs)
    \/ \E k \in Keys : get(k)
    \/ \E ids \in BoundedSeqs(ValueStateKeys, MaxBatch) : batch_get(ids)
    \/ flush_cache
    \/ \E r \in cache : CacheClean(r)

Spec == Init /\ [][Next]_vars

\* The user-state queries, over the states of user u1 at every epoch from its first.
\* The states written outside a transaction carry value "a", a transaction stages
\* either value; they are read back under every retrieval flag.
U1States == {r \in UserStates : r.username = "u1"}

UserNext ==
    \/ begin_transaction
    \/ rollback_transaction
    \/ \E r \in U1States : (active \/ r.plaintext_val = "a") /\ set(r)
    \/ \E flag \in Flags : get_user_state("u1", flag)
    \/ get_user_data("u1")

UserSpec == Init /\ [][UserNext]_vars

\* The bulk version lookup, over the same states and a mediator without a cache
\* (get_user_state_versions uses none). User u2 has no state.
VersionsInit == Init /\ ~cacheOn

VersionsNext ==
    \/ begin_transaction
    \/ rollback_transaction
    \/ \E r \in U1States : (active \/ r.plaintext_val = "a") /\ set(r)
    \/ \E us \in Batches(Users, MaxBatch), flag \in Flags : get_user_state_versions(us, flag)

VersionsSpec == VersionsInit /\ [][VersionsNext]_vars

\* Tombstoning, over two ValueStates of one value each and the Azks record
TombstoneRecords ==
    {ValueState("u1", FirstEpoch("u1"), "a"), ValueState("u2", FirstEpoch("u2"), "a"), Azks(1)}

TombstoneNext ==
    \/ begin_transaction
    \/ \E records \in CommitOrders(mods) : commit_transaction(records)
    \/ rollback_transaction
    \/ \E r \in TombstoneRecords : set(r)
    \/ \E keys \in BoundedSeqs(ValueStateKeys, MaxBatch) : tombstone_value_states(keys)
    \/ \E k \in ValueStateKeys : get(k)

TombstoneSpec == Init /\ [][TombstoneNext]_vars

\* Every operation that calls the store, over one user's two values and the Azks
\* record
ErrorsRecords ==
    {ValueState("u1", FirstEpoch("u1"), "a"), ValueState("u1", FirstEpoch("u1"), "b"), Azks(1)}

ErrorsNext ==
    \/ begin_transaction
    \/ \E records \in CommitOrders(mods) : commit_transaction(records)
    \/ rollback_transaction
    \/ \E r \in ErrorsRecords : set(r)
    \/ \E rs \in Batches(ErrorsRecords, MaxBatch) : batch_set(rs)
    \/ \E k \in Keys : get(k)
    \/ \E ids \in BoundedSeqs(ValueStateKeys, MaxBatch) : batch_get(ids)
    \/ \E flag \in Flags : get_user_state("u1", flag)
    \/ get_user_data("u1")
    \/ \E us \in Batches(Users, MaxBatch), flag \in Flags : get_user_state_versions(us, flag)

ErrorsSpec == Init /\ [][ErrorsNext]_vars

\* Writes that the store may refuse, over records of one value per key: what the
\* store holds under a key is then the one record it ever accepted for it
OneValueRecords ==
    {ValueState("u1", FirstEpoch("u1"), "a"), ValueState("u2", FirstEpoch("u2"), "a"), Azks(1)}

FailedWriteNext ==
    \/ begin_transaction
    \/ \E records \in CommitOrders(mods) : commit_transaction(records)
    \/ rollback_transaction
    \/ \E r \in OneValueRecords : set(r)
    \/ \E rs \in Batches(OneValueRecords, MaxBatch) : batch_set(rs)
    \/ \E k \in {KeyOf(r) : r \in OneValueRecords} : get(k)
    \/ \E r \in cache : CacheClean(r)

FailedWriteSpec == Init /\ [][FailedWriteNext]_vars

\* Two tasks share the mediator: each runs calls of begin_transaction, set, get,
\* commit_transaction and rollback_transaction one after the other, and the two
\* interleave step by step. One key is written, with two values, and the Azks record.
ConcRecords ==
    {ValueState("u1", FirstEpoch("u1"), "a"), ValueState("u1", FirstEpoch("u1"), "b"), Azks(1)}

ConcKeys == {KeyOf(ValueState("u1", FirstEpoch("u1"), "a"))}

ConcNext ==
    \E t \in Tasks :
        \/ \E k \in ConcKeys : get_start(t, k)
        \/ get_tx(t)
        \/ get_cache(t)
        \/ get_db(t)
        \/ get_put(t)
        \/ \E r \in ConcRecords : set_start(t, r)
        \/ set_tx(t)
        \/ set_cache(t)
        \/ set_db(t)
        \/ begin_start(t)
        \/ begin_clean(t)
        \/ \E records \in CommitOrders(mods) : commit_start(t, records)
        \/ commit_clean(t)
        \/ commit_cache(t)
        \/ commit_db(t)
        \/ rollback_start(t)
        \/ rollback_clean(t)
        \/ \E r \in cache : CacheExpire(r)

ConcSpec == Init /\ [][ConcNext]_vars

\* One task writes and reads, with and without a transaction, while the other only
\* reads the same key
Writer == "t1"
Reader == "t2"

ReadersNext ==
    \/ \E k \in ConcKeys : get_start(Writer, k)
    \/ \E k \in ConcKeys : get_start(Reader, k)
    \/ \E t \in Tasks : get_tx(t)
    \/ \E t \in Tasks : get_cache(t)
    \/ \E t \in Tasks : get_db(t)
    \/ \E t \in Tasks : get_put(t)
    \/ \E r \in ConcRecords : set_start(Writer, r)
    \/ set_tx(Writer)
    \/ set_cache(Writer)
    \/ set_db(Writer)
    \/ begin_start(Writer)
    \/ begin_clean(Writer)
    \/ \E records \in CommitOrders(mods) : commit_start(Writer, records)
    \/ commit_clean(Writer)
    \/ commit_cache(Writer)
    \/ commit_db(Writer)
    \/ rollback_start(Writer)
    \/ rollback_clean(Writer)
    \/ \E r \in cache : CacheExpire(r)

ReadersSpec == Init /\ [][ReadersNext]_vars

----------------------------------------------------------------------------
(* Properties of the key-level operations, checked under Spec *)

IsCall(name) == op.name = name

\* The store calls and the cache writes among the effects of the last call
StoreCalls == SelectSeq(log, LAMBDA e : e.call \in {"db.get", "db.batch_get", "db.set",
                    "db.batch_set", "db.get_user_state", "db.get_user_data",
                    "db.get_user_state_versions"})

CachePuts == SelectSeq(log, LAMBDA e : e.call \in {"cache.put", "cache.batch_put"})

MetricIncrements(m) == SelectSeq(log, LAMBDA e : e.call = "metric" /\ e.metric = m)

\* C1: while a transaction is active and holds a staged record for key k, get(k)
\* returns exactly that record and calls neither the store nor the cache's put, and
\* a batch_get whose ids include k hands the staged record back among its records
\* and leaves k out of the keys it asks the store for, whatever the cache and the
\* store hold for k.
C1_StagedRecordWins ==
    /\ (IsCall("get") /\ active /\ TxGet(op.args[1]) # {}) =>
            /\ result = Ok(The(TxGet(op.args[1])))
            /\ log = <<>>
    /\ (IsCall("batch_get") /\ active) =>
            \A i \in 1..Len(op.args[1]) :
                TxGet(op.args[1][i]) # {} =>
                    /\ result.ok => The(TxGet(op.args[1][i])) \in Range(result.val)
                    /\ \A c \in 1..Len(StoreCalls) :
                            op.args[1][i] \notin Range(StoreCalls[c].arg)

\* A get of a key whose staged record differs from the cached one and from the stored one
C1_Witness ==
    /\ IsCall("get") /\ active /\ TxGet(op.args[1]) # {}
    /\ CacheHitTest(op.args[1]) \notin {{}, TxGet(op.args[1])}
    /\ DbGet(op.args[1]) \notin {{}, TxGet(op.args[1])}

\* A step that stages records: a set or a non-empty batch_set taken while the
\* transaction is active
StagingStep ==
    /\ active
    /\ \/ op'.name = "set"
       \/ op'.name = "batch_set" /\ op'.args[1] # <<>>

RollbackStep == active /\ op'.name = "rollback_transaction"

\* C2: staging a record changes neither the cache nor the store, and a rollback
\* changes neither as well, returns Ok, empties the buffer and leaves no transaction
\* active: the cache and the store are as if the staged writes had not been made,
\* and no read after the rollback can be served from the buffer.
C2_RollbackLeavesNoTrace ==
    [][/\ StagingStep => (cache' = cache /\ db' = db /\ log' = <<>>)
       /\ RollbackStep =>
            /\ cache' = cache /\ db' = db /\ log' = <<>>
            /\ result' = Ok(<<>>)
            /\ ~active' /\ mods' = {}
       /\ (~active' /\ op'.name \in {"get", "batch_get"}) => mods' = {}]_vars

\* A rollback has just discarded staged records that the cache and the store do not hold
C2_Witness ==
    /\ IsCall("rollback_transaction") /\ result.ok
    /\ op.args[1] # {}
    /\ op.args[1] \cap (cache \cup db) = {}
    /\ cache # {} /\ db # {}
    /\ ~active /\ mods = {}

\* The records staged when the last commit_transaction was called
Staged == op.args[1]

\* C4: a commit_transaction that returns Ok with staged records has made exactly one
\* store call, a batch_set tagged TransactionCommit whose records are the staged
\* records, one per key, the Azks record last; with a cache, one batch_put of the
\* same list came before it; the batch-set metric was incremented once after it.
C4_CommitWritesOnce ==
    (IsCall("commit_transaction") /\ result.ok /\ Staged # {}) =>
        /\ Len(StoreCalls) = 1
        /\ StoreCalls[1].call = "db.batch_set"
        /\ StoreCalls[1].mode = "TransactionCommit"
        /\ Range(StoreCalls[1].recs) = Staged
        /\ Len(StoreCalls[1].recs) = Cardinality(Staged)
        /\ UniqueKeys(Staged)
        /\ StoreCalls[1].recs[Len(StoreCalls[1].recs)].kind = "Azks"
        /\ IF cacheOn
           THEN /\ Len(log) = 3
                /\ log[1] = [call |-> "cache.batch_put", recs |-> StoreCalls[1].recs]
                /\ log[2] = StoreCalls[1]
                /\ Staged \subseteq cache
           ELSE /\ Len(log) = 2
                /\ log[1] = StoreCalls[1]
        /\ log[Len(log)] = [call |-> "metric", metric |-> METRIC_BATCH_SET]
        /\ Staged \subseteq db

\* A commit of three staged records, one of them a second write to its key
C4_Witness ==
    /\ IsCall("commit_transaction") /\ result.ok /\ cacheOn
    /\ Cardinality(Staged) = 3
    /\ ValueState("u1", FirstEpoch("u1"), "b") \in Staged

\* A commit of staged records with no Azks record among them: the drained list
\* cannot end in one
MalformedCommitStep ==
    /\ op'.name = "commit_transaction" /\ active
    /\ mods # {} /\ \A r \in mods : r.kind # "Azks"

\* C5: a commit_transaction whose drained records do not end in the Azks record
\* returns StorageError::Transaction, writes nothing to the cache and calls the
\* store not at all: the cache and the store are unchanged.
C5_MalformedCommitFails ==
    [][MalformedCommitStep =>
            /\ result' = Err("Transaction")
            /\ log' = <<>>
            /\ cache' = cache /\ db' = db]_vars

\* A commit has failed on staged records that are not in the cache
C5_Witness ==
    /\ IsCall("commit_transaction") /\ result = Err("Transaction")
    /\ Staged # {} /\ cacheOn
    /\ Staged \cap cache = {}

EmptyCommitStep == op'.name = "commit_transaction" /\ active /\ mods = {}

\* C6: a commit_transaction on an active transaction with nothing staged returns Ok,
\* puts nothing in the cache, calls the store not at all, increments no metric and
\* leaves the cache and the store as they were.
C6_EmptyCommitNoOp ==
    [][EmptyCommitStep =>
            /\ result' = Ok(<<>>)
            /\ log' = <<>>
            /\ cache' = cache /\ db' = db]_vars

\* An empty commit has returned Ok over a cache and a store that hold records
C6_Witness ==
    /\ IsCall("commit_transaction") /\ result.ok /\ Staged = {}
    /\ log = <<>> /\ ~active
    /\ cache # {} /\ db # {}

\* The requested keys that neither the active transaction nor the cache resolves
Unresolved(ids) ==
    {id \in Range(ids) :
        /\ ~(active /\ Lookup(mods, id) # {})
        /\ ~(cacheOn /\ Lookup(cache, id) # {})}

\* C13: a batch_get makes at most one store call, a batch_get whose keys are the
\* distinct requested keys that neither the active transaction nor the cache
\* resolved, each once; it makes none when there is no such key.
C13_OneStoreBatchGet ==
    IsCall("batch_get") =>
        /\ Len(StoreCalls) <= 1
        /\ (Unresolved(op.args[1]) = {}) <=> (StoreCalls = <<>>)
        /\ \A i \in 1..Len(StoreCalls) :
                /\ StoreCalls[i].call = "db.batch_get"
                /\ Range(StoreCalls[i].arg) = Unresolved(op.args[1])
                /\ Len(StoreCalls[i].arg) = Cardinality(Unresolved(op.args[1]))

\* A key requested twice and resolved by neither is asked of the store once, and a
\* key the cache or the transaction resolved is not asked at all
C13_Witness ==
    /\ IsCall("batch_get") /\ Len(StoreCalls) = 1
    /\ \/ /\ Len(op.args[1]) = 2 /\ op.args[1][1] = op.args[1][2]
          /\ Len(StoreCalls[1].arg) = 1
       \/ /\ Len(op.args[1]) = 2
          /\ Range(op.args[1]) # Unresolved(op.args[1])
          /\ Len(StoreCalls[1].arg) = 1

\* A get of a key that the active transaction does not hold: one that misses the
\* cache too, and one that hits it
GetMissStep ==
    /\ op'.name = "get"
    /\ ~(active /\ Lookup(mods, op'.args[1]) # {})
    /\ ~(cacheOn /\ Lookup(cache, op'.args[1]) # {})

GetHitStep ==
    /\ op'.name = "get"
    /\ ~(active /\ Lookup(mods, op'.args[1]) # {})
    /\ cacheOn /\ Lookup(cache, op'.args[1]) # {}

\* C18: a get that misses the active buffer and the cache makes exactly one store
\* get; when the store has no record it fails with NotFound, admits nothing to the
\* cache and leaves the get counter alone; when the store returns r it returns r,
\* admits r to the cache and increments the get counter once; and a get of a key
\* that is cached returns the cached record with no store call and no increment.
C18_GetReadThrough ==
    [][ /\ GetMissStep =>
            /\ StoreCalls' = DbCall("db.get", op'.args[1])
            /\ result' \in {Err(e) : e \in DbErrors} \cup
                    (IF Lookup(db, op'.args[1]) = {} THEN {Err("NotFound")}
                     ELSE {Ok(r) : r \in Lookup(db, op'.args[1])})
            /\ ~result'.ok =>
                    /\ cache' = cache /\ CachePuts' = <<>>
                    /\ MetricIncrements(METRIC_GET)' = <<>>
            /\ result'.ok =>
                    /\ cacheOn => (result'.val \in cache' /\ CachePuts' = PutLog(result'.val))
                    /\ Len(MetricIncrements(METRIC_GET)') = 1
        /\ GetHitStep =>
            /\ result' \in {Ok(r) : r \in Lookup(cache, op'.args[1])}
            /\ log' = <<>>
            /\ cache' = cache
      ]_vars

\* A get has read a record from the store, cached it and counted the read
C18_Witness ==
    /\ IsCall("get") /\ cacheOn /\ result.ok
    /\ StoreCalls = DbCall("db.get", op.args[1])
    /\ result.val \in cache /\ result.val \in db
    /\ Len(MetricIncrements(METRIC_GET)) = 1

----------------------------------------------------------------------------
(* Properties of tombstone_value_states, checked under TombstoneSpec *)

\* The record the mediator holds for a key: the staged one, else the cached one,
\* else the store's
Resolved(k) == IF BatchHit(k) # {} THEN BatchHit(k) ELSE DbGet(k)

TombstoneInTransactionStep ==
    /\ op'.name = "tombstone_value_states"
    /\ active

SuccessfulCommitStep ==
    /\ op'.name = "commit_transaction"
    /\ active /\ mods # {}
    /\ result'.ok

\* C14: with a transaction active, tombstone_value_states writes nothing to the
\* store and nothing to the cache, which keep what they held; when it returns Ok
\* it has staged, for each key it resolved, a state of the same username, epoch,
\* version and label whose value is the tombstone; and a successful commit leaves
\* every staged tombstoned state in the store and in the cache.
C14_TombstoneStagedUntilCommit ==
    [][ /\ TombstoneInTransactionStep =>
            /\ cache' = cache /\ db' = db
            /\ CachePuts' = <<>>
            /\ \A i \in 1..Len(StoreCalls') : StoreCalls'[i].call = "db.batch_get"
            /\ result'.ok =>
                    \A k \in Range(op'.args[1]) : \A r \in Resolved(k) :
                        \E t \in mods' :
                            /\ t.username = r.username /\ t.epoch = r.epoch
                            /\ t.version = r.version /\ t.label = r.label
                            /\ t.plaintext_val = TOMBSTONE
        /\ SuccessfulCommitStep =>
            \A t \in mods : t.plaintext_val = TOMBSTONE =>
                /\ t \in db'
                /\ cacheOn => t \in cache'
      ]_vars

\* A commit has returned Ok and left in the cache and the store a tombstoned state
\* that the transaction had staged
C14_Witness ==
    /\ IsCall("commit_transaction") /\ result.ok /\ cacheOn
    /\ \E t \in op.args[1] :
            /\ t.plaintext_val = TOMBSTONE
            /\ t \in db /\ t \in cache

----------------------------------------------------------------------------
(* Properties of get_user_state, checked under UserSpec *)

\* The last call was get_user_state and its store query went through
UserStateAnswered == IsCall("get_user_state") /\ log[1].fail = ""

QueryUser == op.args[1]
QueryFlag == op.args[2]

\* What the store and the buffer hold for the query of the last call (a
\* get_user_state changes neither)
DbState == DbGetUserState(QueryUser, QueryFlag)
TxState == IF active THEN TxGetUserState(QueryUser, QueryFlag) ELSE {}

Max(a, b) == IF a >= b THEN a ELSE b
Min(a, b) == IF a <= b THEN a ELSE b

\* C7: with a transaction active and a state from both the store and the buffer,
\* get_user_state returns one of the two: under LeqEpoch and MaxEpoch the one of
\* the greater epoch, under MinEpoch the one of the lesser epoch, and the staged
\* one when the epochs are equal.
C7_RangeFlagsPickExtreme ==
    (/\ UserStateAnswered /\ active
     /\ QueryFlag.t \in {"LeqEpoch", "MaxEpoch", "MinEpoch"}
     /\ DbState # {} /\ TxState # {}) =>
        /\ result.ok
        /\ result.val \in DbState \cup TxState
        /\ result.val.epoch =
                IF QueryFlag.t = "MinEpoch"
                THEN Min(The(DbState).epoch, The(TxState).epoch)
                ELSE Max(The(DbState).epoch, The(TxState).epoch)
        /\ The(DbState).epoch = The(TxState).epoch => result.val = The(TxState)

\* Under LeqEpoch the store and the buffer hold different states of one epoch, and
\* the staged one came back
C7_Witness ==
    /\ UserStateAnswered /\ active /\ QueryFlag.t = "LeqEpoch"
    /\ DbState # {} /\ TxState # {} /\ DbState # TxState
    /\ The(DbState).epoch = The(TxState).epoch
    /\ result = Ok(The(TxState))

SpecificQuery ==
    /\ IsCall("get_user_state") /\ active
    /\ QueryFlag.t \in {"SpecificVersion", "SpecificEpoch"}
    /\ TxState # {}

\* C8 as claimed: under SpecificVersion and SpecificEpoch, with a transaction active
\* and a matching staged state, the staged state is the result whatever the store
\* answers.
C8_StagedWinsWhateverStore == SpecificQuery => result = Ok(The(TxState))

\* C8, amended: under SpecificVersion and SpecificEpoch, with a transaction active
\* and a matching staged state, the staged state is the result whether the store
\* returned a state or NotFound; when the store's query fails with another error,
\* that error is the result.
C8_StagedWinsUnlessStoreFails ==
    SpecificQuery =>
        IF log[1].fail = ""
        THEN result = Ok(The(TxState))
        ELSE result = Err(log[1].fail)

\* Under SpecificVersion the store holds another state than the buffer, and the
\* staged one came back
C8_Witness ==
    /\ SpecificQuery /\ QueryFlag.t = "SpecificVersion" /\ log[1].fail = ""
    /\ DbState # {} /\ DbState # TxState
    /\ result = Ok(The(TxState))

\* C9: once the store has answered with a state or NotFound, get_user_state returns
\* the staged state when the store has none and an active transaction has one;
\* returns the store's state, and puts it in the cache, when the store has one and
\* there is no staged one; fails with NotFound exactly when neither has one; and
\* makes no cache write when it returns the staged state. A store failure is
\* returned as it is, never as NotFound.
C9_AbsentFolding ==
    /\ UserStateAnswered =>
        /\ (DbState = {} /\ TxState # {}) => result = Ok(The(TxState))
        /\ (DbState # {} /\ TxState = {}) =>
                /\ result = Ok(The(DbState))
                /\ cacheOn =>
                    /\ CachePuts = <<[call |-> "cache.put", recs |-> <<The(DbState)>>]>>
                    /\ The(DbState) \in cache
        /\ result = Err("NotFound") <=> (DbState = {} /\ TxState = {})
        /\ (TxState # {} /\ result = Ok(The(TxState))) => CachePuts = <<>>
    /\ (IsCall("get_user_state") /\ log[1].fail # "") =>
            result = Err(log[1].fail) /\ result.err # "NotFound"

\* With a cache, the store had no state for the query and the staged one came back
C9_Witness ==
    /\ UserStateAnswered /\ cacheOn
    /\ DbState = {} /\ TxState # {}
    /\ result = Ok(The(TxState))
    /\ The(TxState) \notin cache

\* The store's answer to the single-user query of the last call
StoreAnswer == log[1].fail

\* C12: with a transaction active, get_user_data(u) returns one state per epoch of
\* the persisted and the staged states of u together, the staged one where both
\* have the epoch; with none active it returns the persisted KeyData as it is, or
\* NotFound when the store answered NotFound.
C12_UserDataMerge ==
    (IsCall("get_user_data") /\ StoreAnswer \notin DbErrors) =>
        LET u == op.args[1]
            persisted == IF StoreAnswer = "" THEN StatesOf(db, u) ELSE {}
            staged == StatesOf(mods, u)
            epochs == {r.epoch : r \in persisted \cup staged}
        IN  IF active
            THEN /\ result.ok
                 /\ result.val.states \subseteq persisted \cup staged
                 /\ \A e \in epochs :
                        /\ Cardinality({r \in result.val.states : r.epoch = e}) = 1
                        /\ \A t \in staged : t.epoch = e => t \in result.val.states
                 /\ \A r \in result.val.states : r.epoch \in epochs
            ELSE IF StoreAnswer = "NotFound" THEN result = Err("NotFound")
            ELSE result = Ok(KeyData(StatesOf(db, u)))

C12_Witness ==
    /\ IsCall("get_user_data") /\ StoreAnswer = "" /\ active
    /\ \E d \in StatesOf(db, op.args[1]), t \in StatesOf(mods, op.args[1]) :
            /\ d.epoch = t.epoch /\ d # t /\ t \in result.val.states
    /\ \E d \in StatesOf(db, op.args[1]) :
            /\ d \in result.val.states
            /\ \A t \in StatesOf(mods, op.args[1]) : t.epoch # d.epoch

----------------------------------------------------------------------------
(* Properties of get_user_state_versions, checked under VersionsSpec *)

\* The override table: whether the staged state replaces a persisted one of epoch db_epoch
TableSelectsTx(flag, db_epoch, tx_epoch) ==
    CASE flag.t \in {"SpecificVersion", "SpecificEpoch"} -> TRUE
      [] flag.t \in {"LeqEpoch", "MaxEpoch"} -> tx_epoch >= db_epoch
      [] flag.t = "MinEpoch" -> tx_epoch <= db_epoch

VersionsAnswered == IsCall("get_user_state_versions") /\ log[1].fail = ""

StagedPair(t) == <<t.epoch, t.plaintext_val>>

\* C10 as claimed: with a transaction active, for each label with a staged state,
\* the entry is the staged pair (tx.epoch, tx.plaintext_val) when the store has an
\* entry and the table, anchored at the persisted state's epoch, selects the staged
\* state; the store's pair when the table keeps db; and the staged pair when the
\* store has no entry.
C10_StagedPairReplacesBoth ==
    (VersionsAnswered /\ active) =>
        \A label \in Range(op.args[1]) :
            LET d == DbGetUserState(label, op.args[2])
                t == TxGetUserState(label, op.args[2])
            IN  t # {} =>
                    /\ label \in DOMAIN result.val
                    /\ result.val[label] =
                        IF d = {} THEN StagedPair(The(t))
                        ELSE IF TableSelectsTx(op.args[2], The(d).epoch, The(t).epoch)
                        THEN StagedPair(The(t))
                        ELSE DbGetUserStateVersions(op.args[1], op.args[2])[label]

\* The state get_user_state(u, flag) returns in the present store and buffer, when
\* its store query goes through: lines 414-446
UserStateNow(u, flag) ==
    IF UserStateFromTransaction(u, flag, DbGetUserState(u, flag)) # {}
    THEN UserStateFromTransaction(u, flag, DbGetUserState(u, flag))
    ELSE DbGetUserState(u, flag)

\* C11 as claimed: get_user_state_versions(usernames, flag) maps a user exactly when
\* get_user_state(u, flag) succeeds in the same store and buffer, and maps it to
\* the version and the value of the state that call returns, with and without a
\* transaction active.
C11_VersionsAsLoop ==
    VersionsAnswered =>
        \A u \in Range(op.args[1]) :
            LET s == UserStateNow(u, op.args[2])
            IN  /\ (u \in DOMAIN result.val) <=> (s # {})
                /\ s # {} => result.val[u] = <<The(s).version, The(s).plaintext_val>>

----------------------------------------------------------------------------
(* Properties of concurrent calls, checked under ConcSpec *)

\* The steps of a begin_transaction call by task t: the one that asks the
\* transaction to begin, and the one that returns
BeginCalled(t) == tasks[t].pc = "idle" /\ tasks'[t].pc = "begin_clean"

BeginReturns(t) == tasks[t].pc = "begin_clean" /\ tasks'[t].pc = "idle"

\* C15 as claimed: begin_transaction returns true exactly when no transaction was
\* active when it was called; a call that returns false is a no-op, which leaves
\* the staged records, the active flag and the cache's cleaning switch as they are.
C15_BeginFalseIsNoOp ==
    [][\A t \in Tasks :
        /\ BeginCalled(t) =>
                /\ tasks'[t].loc = ~active
                /\ active => (active' /\ mods' = mods)
        /\ BeginReturns(t) =>
                /\ tasks'[t].ret = Ok(tasks[t].loc)
                /\ ~tasks[t].loc => can_clean' = can_clean
      ]_vars

\* Task t's get returns at this step, and what it returns
GetReturns(t) == tasks[t].call = "get" /\ tasks[t].pc # "idle" /\ tasks'[t].pc = "idle"

\* C16 as claimed: while a commit_transaction runs, no get returns from the cache a
\* record of that commit that the store does not hold yet; and no get called during
\* the commit returns another record for a key than the staged one an earlier get
\* has returned.
C16_CommitAtomic ==
    [][\A t \in Tasks :
        (GetReturns(t) /\ tasks'[t].ret.ok) =>
            /\ \A c \in Tasks :
                    (/\ tasks[t].pc = "get_cache"
                     /\ tasks[c].call = "commit_transaction" /\ tasks[c].pc # "idle"
                     /\ tasks'[t].ret.val \in Range(tasks[c].loc))
                        => tasks'[t].ret.val \in db
            /\ (tasks[t].during /\ Committing) =>
                    \A r \in seen : KeyOf(r) = tasks[t].arg => tasks'[t].ret.val = r
      ]_vars

\* C17 as claimed: a get that a task calls right after its set(r) of the same key
\* returned Ok returns r, when nothing else wrote the key and no rollback happened
\* since the set, whatever gets the other tasks run meanwhile.
C17_ReadYourWrites ==
    \A t \in Tasks :
        (tasks[t].call = "get" /\ tasks[t].pc = "idle" /\ tasks[t].own # {}) =>
            tasks[t].ret = Ok(The(tasks[t].own))

\* The errors the store's calls of the last operation came back with
StoreErrors ==
    {log[i].err : i \in {j \in DOMAIN log : log[j].call = "db.error"}}
        \cup {log[i].fail : i \in {j \in DOMAIN log :
                    /\ log[j].call \in {"db.get_user_state", "db.get_user_data",
                                        "db.get_user_state_versions"}
                    /\ log[j].fail # ""}}

\* C19: get_user_state and get_user_data return every store error other than
\* NotFound as it came, and go on when the store answers NotFound (get_user_data
\* then answers Ok inside a transaction); get, batch_get, set, batch_set,
\* get_user_state_versions and commit_transaction return every store error as it
\* came, NotFound included.
C19_OnlyNotFoundAbsorbed ==
    /\ op.name \in {"get_user_state", "get_user_data"} =>
            /\ \A e \in StoreErrors \ {"NotFound"} : result = Err(e)
            /\ (op.name = "get_user_data" /\ "NotFound" \in StoreErrors /\ active)
                    => result.ok
    /\ op.name \in {"get", "batch_get", "set", "batch_set", "get_user_state_versions",
                    "commit_transaction"} =>
            \A e \in StoreErrors : result = Err(e)

\* The store answered NotFound to the bulk versions query and the caller got it
C19_Witness ==
    /\ op.name = "get_user_state_versions"
    /\ StoreErrors = {"NotFound"}
    /\ result = Err("NotFound")

\* No begin_transaction, commit_transaction or rollback_transaction call is running
NoTransactionCallInFlight ==
    \A t \in Tasks :
        tasks[t].pc = "idle" \/
            tasks[t].call \notin {"begin_transaction", "commit_transaction",
                                  "rollback_transaction"}

\* C20 as claimed: with a cache, in every interleaving of the tasks' begin, commit
\* and rollback calls, cleaning is paused whenever the transaction is active, and
\* cleaning is enabled whenever no transaction is active and none of these calls
\* is in flight.
C20_CleanTracksTransaction ==
    cacheOn =>
        /\ active => ~can_clean
        /\ (~active /\ NoTransactionCallInFlight) => can_clean

\* The records the last operation handed to the store to write
StoreWriteRecords ==
    UNION {IF log[i].call = "db.set" THEN {log[i].arg} ELSE Range(log[i].recs) :
                i \in {j \in DOMAIN log : log[j].call \in {"db.set", "db.batch_set"}}}

\* A set, batch_set or commit_transaction whose store write came back with an error
FailedWriteStep ==
    /\ op'.name \in {"set", "batch_set", "commit_transaction"}
    /\ StoreErrors' # {}
    /\ ~result'.ok

\* C21 as claimed: when set or batch_set outside a transaction, or
\* commit_transaction, fails because the store refused the write, a get of a key
\* of that write does not then answer with a record of the write that the store
\* does not hold.
C21_FailedWriteNotCached ==
    [][FailedWriteStep =>
            \A r \in StoreWriteRecords' :
                Resolved(KeyOf(r))' = {r} => r \in db'
      ]_vars

\* C22 as claimed: in every interleaving of the tasks' calls, a record whose set
\* returned Ok never remains staged in the buffer while no transaction is active.
C22_NoStrandedWrite ==
    \A t \in Tasks :
        (/\ tasks[t].call = "set" /\ tasks[t].pc = "idle" /\ tasks[t].ret.ok
         /\ tasks[t].arg \in mods)
            => active

\* C3 as claimed: a get called after a commit_transaction returned Ok, for a key
\* the commit wrote and that no set has been writing since the commit was called,
\* returns the committed record, in every interleaving.
C3_GetAfterCommit ==
    \A t \in Tasks :
        (tasks[t].call = "get" /\ tasks[t].pc = "idle" /\ tasks[t].expect # {}) =>
            tasks[t].ret = Ok(The(tasks[t].expect))

====
